---------------------------- MODULE Spec2Model ----------------------------
(*************************************************************************)
(* Model of app/services/audio_processor.py: AudioProcessor.merge_audio  *)
(* (load, fade, composite, clamp the duration, export, clean up) and     *)
(* AudioProcessor.get_audio_duration.                                    *)
(*                                                                       *)
(* An audio segment (pydub AudioSegment) is addressed in milliseconds,   *)
(* as the code addresses it.  It is kept run-length encoded: a sequence  *)
(* of chunks, each n milliseconds long and carrying the set of layers    *)
(* mixed in it.  A layer names the decoded input (index into             *)
(* audio_files), the offset into that input at the chunk's start, and    *)
(* the fades applied to it.  Silence is a chunk with no layer.  Two      *)
(* segments are equal iff their normalised chunk sequences are equal.    *)
(*************************************************************************)
EXTENDS Integers, Sequences, FiniteSets, TLC

\* ----------------------------------------------------------------------
\* Program constants
\* ----------------------------------------------------------------------

MIN_DURATION_MS == 60 * 1000

MAX_DURATION_MS == 30 * 60 * 1000

OVERLAP_DURATION == 1000

SegmentFadeMs == 100

OverlapFadeMs == 300

GapMs == 300

TruncateFadeMs == 2000

\* ----------------------------------------------------------------------
\* Bounds of the model
\* ----------------------------------------------------------------------

MaxFiles == 3

\* ----------------------------------------------------------------------
\* pydub.AudioSegment, in milliseconds
\* ----------------------------------------------------------------------

Min(a, b) == IF a < b THEN a ELSE b

Max(a, b) == IF a > b THEN a ELSE b

RECURSIVE TrackLen(_)
TrackLen(t) == IF t = <<>> THEN 0 ELSE Head(t).n + TrackLen(Tail(t))

ShiftLayers(layers, d) ==
    { [src |-> l.src, off |-> l.off + d, fx |-> l.fx] : l \in layers }

\* Adjacent chunks that continue one another are one chunk.
RECURSIVE Norm(_)
Norm(t) ==
    IF Len(t) < 2 THEN t
    ELSE LET a == t[1]
             b == t[2]
         IN  IF b.layers = ShiftLayers(a.layers, a.n)
             THEN Norm(<<[n |-> a.n + b.n, layers |-> a.layers]>>
                       \o SubSeq(t, 3, Len(t)))
             ELSE <<a>> \o Norm(Tail(t))

\* AudioSegment.empty()
EmptySegment == <<>>

\* AudioSegment.silent(duration=d)
Silent(d) == IF d > 0 THEN <<[n |-> d, layers |-> {}]>> ELSE <<>>

\* seg1 + seg2
Concat(a, b) == Norm(a \o b)

\* The first k milliseconds of t (0 <= k <= TrackLen(t)).
RECURSIVE TakeMs(_, _)
TakeMs(t, k) ==
    IF k <= 0 \/ t = <<>> THEN <<>>
    ELSE IF Head(t).n <= k THEN <<Head(t)>> \o TakeMs(Tail(t), k - Head(t).n)
    ELSE <<[n |-> k, layers |-> Head(t).layers]>>

\* t without its first k milliseconds (0 <= k <= TrackLen(t)).
RECURSIVE DropMs(_, _)
DropMs(t, k) ==
    IF k <= 0 \/ t = <<>> THEN t
    ELSE IF Head(t).n <= k THEN DropMs(Tail(t), k - Head(t).n)
    ELSE <<[n |-> Head(t).n - k, layers |-> ShiftLayers(Head(t).layers, k)]>>
         \o Tail(t)

\* AudioSegment._parse_position: a negative position counts from the end.
ParsePosition(t, ms) == IF ms < 0 THEN Max(0, TrackLen(t) + ms) ELSE ms

\* seg[start:stop]: both ends are cut to the segment's length.
Slice(t, start, stop) ==
    LET s == ParsePosition(t, Min(start, TrackLen(t)))
        e == ParsePosition(t, Min(stop, TrackLen(t)))
    IN  IF e <= s THEN <<>> ELSE TakeMs(DropMs(t, s), e - s)

\* seg[:stop]
SliceTo(t, stop) == Slice(t, 0, stop)

\* seg[start:]
SliceFrom(t, start) == Slice(t, start, TrackLen(t))

\* base.overlay(over): sample-wise sum at position 0; the result is as long
\* as base, and over is cut to fit.
RECURSIVE OverlayRaw(_, _)
OverlayRaw(base, over) ==
    IF base = <<>> THEN <<>>
    ELSE IF over = <<>> THEN base
    ELSE LET m == Min(Head(base).n, Head(over).n)
         IN  <<[n |-> m, layers |-> Head(base).layers \cup Head(over).layers]>>
             \o OverlayRaw(DropMs(base, m), DropMs(over, m))

Overlay(base, over) == Norm(OverlayRaw(base, over))

TagChunks(t, tag) ==
    [k \in 1..Len(t) |->
        [n |-> t[k].n,
         layers |-> { [src |-> l.src, off |-> l.off, fx |-> l.fx \cup {tag}]
                      : l \in t[k].layers }]]

\* The gain ramp `tag` applied to milliseconds [from, to) of t.
Fade(t, from, to, tag) ==
    Norm(Slice(t, 0, from) \o TagChunks(Slice(t, from, to), tag)
         \o Slice(t, to, TrackLen(t)))

\* seg.fade_in(d): the ramp covers the first d milliseconds.
FadeIn(t, d) == Fade(t, 0, Min(d, TrackLen(t)), <<"fade_in", d>>)

\* seg.fade_out(d): the ramp covers the last d milliseconds.
FadeOut(t, d) ==
    Fade(t, Max(0, TrackLen(t) - d), TrackLen(t), <<"fade_out", d>>)

\* The decoded audio of input number i, ms milliseconds long.
Decoded(i, ms) ==
    IF ms > 0 THEN <<[n |-> ms, layers |-> {[src |-> i, off |-> 0, fx |-> {}]}]>>
    ELSE <<>>


\* ----------------------------------------------------------------------
\* Text: a Python str is a sequence of one-character strings
\* ----------------------------------------------------------------------

UpperLetters ==
    <<"A","B","C","D","E","F","G","H","I","J","K","L","M",
      "N","O","P","Q","R","S","T","U","V","W","X","Y","Z">>

LowerLetters ==
    <<"a","b","c","d","e","f","g","h","i","j","k","l","m",
      "n","o","p","q","r","s","t","u","v","w","x","y","z">>

LowerChar(c) ==
    IF \E k \in 1..26 : UpperLetters[k] = c
    THEN LowerLetters[CHOOSE k \in 1..26 : UpperLetters[k] = c]
    ELSE c

\* str.lower()
StrLower(s) == [k \in 1..Len(s) |-> LowerChar(s[k])]

\* sub in s
StrContains(sub, s) ==
    \E k \in 1..(Len(s) - Len(sub) + 1) : SubSeq(s, k, k + Len(sub) - 1) = sub

OverlapMarker == <<"[","o","v","e","r","l","a","p","]">>

\* A variant of _should_overlap that forgets to lower-case the text.
ShouldOverlapCaseSensitive(text) == StrContains(OverlapMarker, text)

\* AudioProcessor._should_overlap
ShouldOverlap(text) == StrContains(OverlapMarker, StrLower(text))

\* ----------------------------------------------------------------------
\* Inputs of the model
\* ----------------------------------------------------------------------

\* "[OverLAP] no"
TextOverlap == <<"[","O","v","e","r","L","A","P","]"," ","n","o">>

\* "[pause] overlap"
TextPause == <<"[","p","a","u","s","e","]"," ","o","v","e","r","l","a","p">>

TextEmpty == <<>>

Texts == {TextOverlap, TextPause, TextEmpty}

\* The transient per-segment files on storage and the length of the audio
\* each decodes to.
GoodPaths ==
    {"/tmp/a.mp3", "/tmp/b.mp3", "/tmp/c.mp3", "/tmp/s.mp3", "/tmp/long.mp3"}

AudioMs(p) ==
    CASE p = "/tmp/a.mp3" -> 2000
      [] p = "/tmp/b.mp3" -> 3000
      [] p = "/tmp/c.mp3" -> 1500
      [] p = "/tmp/s.mp3" -> 400
      [] p = "/tmp/long.mp3" -> 1000000

\* A file that is not decodable as audio.
Undecodable == {"/tmp/bad.mp3"}

\* A file whose removal raises (os.remove fails).
Undeletable == {"/tmp/c.mp3"}

Paths == GoodPaths \cup Undecodable

ShortPaths == {"/tmp/a.mp3", "/tmp/b.mp3", "/tmp/c.mp3", "/tmp/s.mp3"}

Dialogues ==
    { [given |-> FALSE, lines |-> <<>>] } \cup
    { [given |-> TRUE, lines |-> l] :
        l \in UNION { [1..m -> {"Host"} \X Texts] : m \in 0..MaxFiles } }

AudioFileLists == UNION { [1..m -> Paths] : m \in 0..MaxFiles }

OutputName == "output/podcast_uuid4.mp3"


\* ----------------------------------------------------------------------
\* State
\* ----------------------------------------------------------------------

VARIABLES
    pc,                \* where the request is
    audio_files,       \* argument: the ordered input paths
    dialogue,          \* argument: None (given = FALSE) or (speaker, text) pairs
    disk,              \* the input paths that exist on storage
    output_dir,        \* the files of the output area
    segments,          \* the (segment, text) pairs loaded so far
    i,                 \* index of the running loop (0-based, as in the code)
    final_track,
    current_position,
    prev_track,        \* final_track as it was before the last compositor step
    steps,             \* one record per compositor step taken
    duration_ms,       \* length of the assembled track, before the clamp
    output_path,
    warnings,          \* paths whose clean-up failure was logged
    result,            \* the value merge_audio returned ("" while none)
    duration_label,    \* the value get_audio_duration returned (<<>> while none)
    error              \* the exception raised ("" while none)

vars ==
    <<pc, audio_files, dialogue, disk, output_dir, segments, i, final_track,
      current_position, prev_track, steps, duration_ms, output_path, warnings,
      result, duration_label, error>>

\* After AudioProcessor.__init__: the output directory exists; the
\* speech-synthesis collaborator has written the per-segment files.
Init ==
    /\ pc = "idle"
    /\ audio_files = <<>>
    /\ dialogue = [given |-> FALSE, lines |-> <<>>]
    /\ disk = Paths
    /\ output_dir = {}
    /\ segments = <<>>
    /\ i = 0
    /\ final_track = EmptySegment
    /\ current_position = 0
    /\ prev_track = EmptySegment
    /\ steps = <<>>
    /\ duration_ms = 0
    /\ output_path = ""
    /\ warnings = {}
    /\ result = ""
    /\ duration_label = <<>>
    /\ error = ""

\* ----------------------------------------------------------------------
\* merge_audio
\* ----------------------------------------------------------------------

\* `if not audio_files`
NoAudioFilesLenient(files) == FALSE

NoAudioFiles(files) == files = <<>>

\* The call and the guard on an empty list.
MergeAudio(files, dlg) ==
    /\ pc = "idle"
    /\ audio_files' = files
    /\ dialogue' = dlg
    /\ IF NoAudioFiles(files)
       THEN /\ pc' = "raised"
            /\ error' = "ValueError"
       ELSE /\ pc' = IF Len(files) > 0 THEN "load" ELSE "adjust"
            /\ error' = error
    /\ UNCHANGED duration_label
    /\ UNCHANGED <<disk, output_dir, segments, i, final_track,
                   current_position, prev_track, steps, duration_ms,
                   output_path, warnings, result>>

\* AudioSegment.from_mp3(file_path) succeeds on this path.
Decodable(path) == path \in disk /\ path \notin Undecodable

\* `dialogue and i < len(dialogue)`: the text paired with audio file k.
TextFor(dlg, k) ==
    IF dlg.given /\ dlg.lines # <<>> /\ k < Len(dlg.lines)
    THEN dlg.lines[k + 1][2]
    ELSE <<>>

\* segment.fade_in(100).fade_out(100)
Preprocess(seg) == FadeOut(FadeIn(seg, SegmentFadeMs), SegmentFadeMs)

\* One iteration of the loading loop.
LoadSegment ==
    /\ pc = "load"
    /\ i < Len(audio_files)
    /\ Decodable(audio_files[i + 1])
    /\ LET segment == Preprocess(Decoded(i, AudioMs(audio_files[i + 1])))
       IN  segments' = Append(segments, <<segment, TextFor(dialogue, i)>>)
    /\ IF i + 1 < Len(audio_files)
       THEN /\ i' = i + 1
            /\ pc' = pc
       ELSE /\ i' = 0
            /\ pc' = "compose"
    /\ UNCHANGED duration_label
    /\ UNCHANGED <<audio_files, dialogue, disk, output_dir, final_track,
                   current_position, prev_track, steps, duration_ms,
                   output_path, warnings, result, error>>

\* from_mp3 raises: the except block logs and re-raises.
LoadFails ==
    /\ pc = "load"
    /\ i < Len(audio_files)
    /\ ~Decodable(audio_files[i + 1])
    /\ pc' = "raised"
    /\ error' = "DecodeError"
    /\ UNCHANGED duration_label
    /\ UNCHANGED <<audio_files, dialogue, disk, output_dir, segments, i,
                   final_track, current_position, prev_track, steps,
                   duration_ms, output_path, warnings, result>>


\* `max(0, current_position - self.OVERLAP_DURATION)`
OverlapPositionUnclamped(position) == position - OVERLAP_DURATION

OverlapPosition(position) == Max(0, position - OVERLAP_DURATION)

\* The overlap branch: the new track.  A variant that appends the whole
\* segment after the mixed region comes first.
PlaceOverlapWhole(track, position, segment) ==
    LET overlap_position == OverlapPosition(position)
        temp_track == SliceTo(track, overlap_position)
        overlap_segment == FadeIn(segment, OverlapFadeMs)
        overlap_portion == Slice(track, overlap_position, position)
        mixed_overlap ==
            Overlay(overlap_portion, SliceTo(overlap_segment, OVERLAP_DURATION))
    IN  Concat(Concat(temp_track, mixed_overlap), segment)

\* A variant that replaces the tail by the segment instead of mixing them.
PlaceOverlapReplacing(track, position, segment) ==
    Concat(SliceTo(track, OverlapPosition(position)), segment)

\* A variant that overlays the segment's head from the start of the track.
PlaceOverlapMixesFromStart(track, position, segment) ==
    Concat(Overlay(track, SliceTo(FadeIn(segment, OverlapFadeMs),
                                  OVERLAP_DURATION)),
           SliceFrom(segment, OVERLAP_DURATION))

PlaceOverlap(track, position, segment) ==
    LET overlap_position == OverlapPosition(position)
        temp_track == SliceTo(track, overlap_position)
        overlap_segment == FadeIn(segment, OverlapFadeMs)
        overlap_portion == Slice(track, overlap_position, position)
        mixed_overlap ==
            Overlay(overlap_portion, SliceTo(overlap_segment, OVERLAP_DURATION))
    IN  Concat(Concat(temp_track, mixed_overlap),
               SliceFrom(segment, OVERLAP_DURATION))

\* The sequential branch: `final_track + gap + segment`
PlaceSequential(track, segment) ==
    Concat(Concat(track, Silent(GapMs)), segment)

\* One iteration of the compositing loop on segment k (0-based): the new
\* track, the branch taken and where the segment starts.  A variant without
\* the `i == 0` case comes first.
CompositorStepNoFirstCase(track, position, k, segment, text) ==
    IF ShouldOverlap(text)
    THEN [track |-> PlaceOverlap(track, position, segment),
          kind |-> "overlap", at |-> OverlapPosition(position)]
    ELSE [track |-> PlaceSequential(track, segment),
          kind |-> "gap", at |-> position + GapMs]

CompositorStep(track, position, k, segment, text) ==
    IF k = 0
    THEN [track |-> segment, kind |-> "first", at |-> 0]
    ELSE IF ShouldOverlap(text)
    THEN [track |-> PlaceOverlap(track, position, segment),
          kind |-> "overlap", at |-> OverlapPosition(position)]
    ELSE [track |-> PlaceSequential(track, segment),
          kind |-> "gap", at |-> position + GapMs]

ComposeSegment ==
    /\ pc = "compose"
    /\ i < Len(segments)
    /\ LET segment == segments[i + 1][1]
           text == segments[i + 1][2]
           step == CompositorStep(final_track, current_position, i, segment, text)
       IN  /\ final_track' = step.track
           /\ current_position' = TrackLen(step.track)
           /\ prev_track' = final_track
           /\ steps' = Append(steps,
                  [kind |-> step.kind, at |-> step.at,
                   before |-> current_position,
                   seglen |-> TrackLen(segment),
                   after |-> TrackLen(step.track)])
    /\ i' = i + 1
    /\ pc' = IF i + 1 < Len(segments) THEN pc ELSE "adjust"
    /\ UNCHANGED duration_label
    /\ UNCHANGED <<audio_files, dialogue, disk, output_dir, segments,
                   duration_ms, output_path, warnings, result, error>>

\* "Check and adjust duration".  A variant that pads with a whole minimum
\* of silence comes first.
ClampDurationPadsMinimum(track) ==
    IF TrackLen(track) < MIN_DURATION_MS
    THEN Concat(track, Silent(MIN_DURATION_MS))
    ELSE IF TrackLen(track) > MAX_DURATION_MS
    THEN FadeOut(SliceTo(track, MAX_DURATION_MS), TruncateFadeMs)
    ELSE track

ClampDuration(track) ==
    IF TrackLen(track) < MIN_DURATION_MS
    THEN Concat(track, Silent(MIN_DURATION_MS - TrackLen(track)))
    ELSE IF TrackLen(track) > MAX_DURATION_MS
    THEN FadeOut(SliceTo(track, MAX_DURATION_MS), TruncateFadeMs)
    ELSE track

AdjustDuration ==
    /\ pc = "adjust"
    /\ duration_ms' = TrackLen(final_track)
    /\ final_track' = ClampDuration(final_track)
    /\ pc' = "export"
    /\ UNCHANGED duration_label
    /\ UNCHANGED <<audio_files, dialogue, disk, output_dir, segments, i,
                   current_position, prev_track, steps, output_path, warnings,
                   result, error>>

\* final_track.export(output_path, ...) writes straight to output_path.  The
\* file exists under that name from the moment the export opens it.
ExportBegin ==
    /\ pc = "export"
    /\ output_path' = OutputName
    /\ output_dir' = output_dir \cup
           {[name |-> OutputName, complete |-> FALSE, ms |-> 0]}
    /\ pc' = "encoding"
    /\ UNCHANGED duration_label
    /\ UNCHANGED <<audio_files, dialogue, disk, segments, i, final_track,
                   current_position, prev_track, steps, duration_ms, warnings,
                   result, error>>

\* The export fails before it has created the file.
ExportRefused ==
    /\ pc = "export"
    /\ output_path' = OutputName
    /\ pc' = "raised"
    /\ error' = "EncodeError"
    /\ UNCHANGED duration_label
    /\ UNCHANGED <<audio_files, dialogue, disk, output_dir, segments, i,
                   final_track, current_position, prev_track, steps,
                   duration_ms, warnings, result>>

\* The export completes: the file holds the whole encoded track.
ExportFinish ==
    /\ pc = "encoding"
    /\ output_dir' = (output_dir \ {f \in output_dir : f.name = output_path})
           \cup {[name |-> output_path, complete |-> TRUE,
                  ms |-> TrackLen(final_track)]}
    /\ pc' = "cleanup"
    /\ i' = 0
    /\ UNCHANGED duration_label
    /\ UNCHANGED <<audio_files, dialogue, disk, segments, final_track,
                   current_position, prev_track, steps, duration_ms,
                   output_path, warnings, result, error>>

\* The export fails while encoding: the except block logs and re-raises, and
\* nothing removes what was written.
ExportFails ==
    /\ pc = "encoding"
    /\ pc' = "raised"
    /\ error' = "EncodeError"
    /\ UNCHANGED duration_label
    /\ UNCHANGED <<audio_files, dialogue, disk, output_dir, segments, i,
                   final_track, current_position, prev_track, steps,
                   duration_ms, output_path, warnings, result>>

\* The body of the clean-up loop for one path: `os.path.exists`, `os.remove`
\* inside try/except.  A variant without the try/except comes first.
CleanupFileUnguarded(path, dsk) ==
    IF path \notin dsk
    THEN [disk |-> dsk, warned |-> {}, raised |-> FALSE]
    ELSE IF path \in Undeletable
    THEN [disk |-> dsk, warned |-> {}, raised |-> TRUE]
    ELSE [disk |-> dsk \ {path}, warned |-> {}, raised |-> FALSE]

CleanupFile(path, dsk) ==
    IF path \notin dsk
    THEN [disk |-> dsk, warned |-> {}, raised |-> FALSE]
    ELSE IF path \in Undeletable
    THEN [disk |-> dsk, warned |-> {path}, raised |-> FALSE]
    ELSE [disk |-> dsk \ {path}, warned |-> {}, raised |-> FALSE]

\* One iteration of the clean-up loop; after the last one, `return output_path`.
CleanupStep ==
    /\ pc = "cleanup"
    /\ IF i < Len(audio_files)
       THEN LET out == CleanupFile(audio_files[i + 1], disk)
            IN  /\ disk' = out.disk
                /\ warnings' = warnings \cup out.warned
                /\ IF out.raised
                   THEN /\ pc' = "raised"
                        /\ error' = "OSError"
                        /\ i' = i
                   ELSE /\ pc' = pc
                        /\ error' = error
                        /\ i' = i + 1
                /\ result' = result
       ELSE /\ pc' = "returned"
            /\ result' = output_path
            /\ UNCHANGED <<disk, warnings, error, i>>
    /\ UNCHANGED duration_label
    /\ UNCHANGED <<audio_files, dialogue, output_dir, segments, final_track,
                   current_position, prev_track, steps, duration_ms,
                   output_path>>

\* The requests of the model, each a list of at most MaxFiles paths: the
\* short files with every dialogue of at most as many lines, and every file
\* with no dialogue or with one overlap-marked line per file.
IsRequest(files, dlg) ==
    /\ Len(dlg.lines) <= Len(files)
    /\ \/ \A k \in 1..Len(files) : files[k] \in ShortPaths
       \/ ~dlg.given
       \/ /\ Len(dlg.lines) = Len(files)
          /\ \A k \in 1..Len(files) : dlg.lines[k][2] = TextOverlap

Next ==
    \/ /\ pc = "idle"
       /\ \E files \in AudioFileLists, dlg \in Dialogues :
             /\ IsRequest(files, dlg)
             /\ MergeAudio(files, dlg)
    \/ LoadSegment
    \/ LoadFails
    \/ ComposeSegment
    \/ AdjustDuration
    \/ ExportBegin
    \/ ExportRefused
    \/ ExportFinish
    \/ ExportFails
    \/ CleanupStep

Spec == Init /\ [][Next]_vars


\* lines 50-80 as a fold: the track after the first k segments of segs.
RECURSIVE Composite(_, _)
Composite(segs, k) ==
    IF k = 0 THEN EmptySegment
    ELSE LET before == Composite(segs, k - 1)
         IN  CompositorStep(before, TrackLen(before), k - 1,
                            segs[k][1], segs[k][2]).track

\* ----------------------------------------------------------------------
\* get_audio_duration
\* ----------------------------------------------------------------------

DigitChars == <<"0","1","2","3","4","5","6","7","8","9">>

\* str(n) of a non-negative int, as an f-string formats it.
RECURSIVE IntToStr(_)
IntToStr(n) ==
    IF n < 10 THEN <<DigitChars[n + 1]>>
    ELSE IntToStr(n \div 10) \o <<DigitChars[(n % 10) + 1]>>

\* timedelta(milliseconds=ms).seconds: the seconds within the day; whole
\* days are kept in .days.
TimedeltaSeconds(ms) == (ms \div 1000) % 86400

\* f"{minutes}m{seconds}s"
DurationLabel(ms) ==
    LET minutes == TimedeltaSeconds(ms) \div 60
        seconds == TimedeltaSeconds(ms) % 60
    IN  IntToStr(minutes) \o <<"m">> \o IntToStr(seconds) \o <<"s">>

GetAudioDuration(audio_path) ==
    /\ pc = "idle"
    /\ output_path' = audio_path
    /\ IF \E f \in output_dir : f.name = audio_path
       THEN LET f == CHOOSE g \in output_dir : g.name = audio_path
            IN  /\ duration_ms' = f.ms
                /\ duration_label' = DurationLabel(f.ms)
                /\ pc' = "returned"
                /\ error' = error
       ELSE /\ pc' = "raised"
            /\ error' = "FileNotFoundError"
            /\ UNCHANGED <<duration_ms, duration_label>>
    /\ UNCHANGED <<audio_files, dialogue, disk, output_dir, segments, i,
                   final_track, current_position, prev_track, steps, warnings,
                   result>>

\* The lengths of the stored files of the model.
StoredDurations ==
    { h * 3600000 + m * 60000 + sec * 1000 + ms :
        h \in {0, 1, 24}, m \in {0, 2, 59}, sec \in {0, 5, 59}, ms \in {0, 999} }

InitDuration ==
    /\ pc = "idle"
    /\ audio_files = <<>>
    /\ dialogue = [given |-> FALSE, lines |-> <<>>]
    /\ disk = {}
    /\ \E d \in StoredDurations :
          output_dir = {[name |-> OutputName, complete |-> TRUE, ms |-> d]}
    /\ segments = <<>>
    /\ i = 0
    /\ final_track = EmptySegment
    /\ current_position = 0
    /\ prev_track = EmptySegment
    /\ steps = <<>>
    /\ duration_ms = 0
    /\ output_path = ""
    /\ warnings = {}
    /\ result = ""
    /\ duration_label = <<>>
    /\ error = ""

NextDuration ==
    \E audio_path \in {OutputName, "output/missing.mp3"} :
        GetAudioDuration(audio_path)

SpecDuration == InitDuration /\ [][NextDuration]_vars


\* ----------------------------------------------------------------------
\* Properties
\* ----------------------------------------------------------------------

\* The text contains "[overlap]", each letter in either case.
MarkedOverlap(text) ==
    \E p \in 1..(Len(text) - 8) :
        \A j \in 1..9 :
            \/ text[p + j - 1] = OverlapMarker[j]
            \/ \E l \in 1..26 : /\ LowerLetters[l] = OverlapMarker[j]
                                /\ UpperLetters[l] = text[p + j - 1]

\* The text the caller paired with audio file k (1-based) is overlap-marked.
FileMarked(k) ==
    /\ dialogue.given
    /\ k <= Len(dialogue.lines)
    /\ MarkedOverlap(dialogue.lines[k][2])

AfterAdjust == pc \in {"export", "encoding", "cleanup", "returned"}

ClampedMs(ms) ==
    IF ms < 60000 THEN 60000 ELSE IF ms > 1800000 THEN 1800000 ELSE ms

\* C1: the track merge_audio exports is MIN_DURATION_MS long when the
\* assembled track was shorter, MAX_DURATION_MS long when it was longer, and
\* as long as the assembled track otherwise.
C1_ExportedLengthClamped ==
    /\ AfterAdjust =>
          /\ steps # <<>> => duration_ms = steps[Len(steps)].after
          /\ TrackLen(final_track) = ClampedMs(duration_ms)
          /\ TrackLen(final_track) >= MIN_DURATION_MS
          /\ TrackLen(final_track) <= MAX_DURATION_MS
    /\ \A f \in output_dir : f.complete => f.ms = ClampedMs(duration_ms)

C1_Witness ==
    /\ pc = "returned"
    /\ duration_ms > 1800000
    /\ \E f \in output_dir : f.complete /\ f.ms = 1800000

\* The length the claim gives for the first k files composited.
RECURSIVE ExpectedLength(_)
ExpectedLength(k) ==
    IF k = 1 THEN AudioMs(audio_files[1])
    ELSE ExpectedLength(k - 1) +
         (IF MarkedOverlap(segments[k][2])
          THEN Max(0, AudioMs(audio_files[k]) - 1000)
          ELSE 300 + AudioMs(audio_files[k]))

IsExample ==
    /\ audio_files = <<"/tmp/a.mp3", "/tmp/b.mp3", "/tmp/c.mp3">>
    /\ dialogue.given
    /\ Len(dialogue.lines) = 3
    /\ dialogue.lines[1][2] = TextEmpty
    /\ dialogue.lines[2][2] = TextOverlap
    /\ dialogue.lines[3][2] = TextPause

\* C2: before the clamp, the composited track is as long as the first
\* segment, plus 300 ms and its length for every later segment that is not
\* overlap-marked, plus its length less 1000 ms (or nothing, if it is
\* shorter) for every later segment that is; 2000, 3000 (overlap), 1500
\* give 5800 ms.
C2_CompositedLength ==
    pc = "adjust" /\ segments # <<>> =>
        /\ TrackLen(final_track) = ExpectedLength(Len(segments))
        /\ current_position = ExpectedLength(Len(segments))
        /\ IsExample => TrackLen(final_track) = 5800

C2_Witness == pc = "adjust" /\ IsExample /\ current_position = 5800

\* C3: a segment at index i >= 1 goes through the overlap branch iff the
\* text paired with audio file i contains "[overlap]" in any letter case;
\* with any other text, no dialogue or a dialogue too short, it goes
\* through the gap branch.
C3_OverlapBranchIffMarked ==
    \A k \in 2..Len(steps) :
        /\ steps[k].kind \in {"overlap", "gap"}
        /\ steps[k].kind = "overlap" <=> FileMarked(k)

C3_Witness ==
    /\ Len(steps) = 3
    /\ Len(dialogue.lines) = 2
    /\ dialogue.lines[2][2] = TextOverlap
    /\ steps[2].kind = "overlap"
    /\ steps[3].kind = "gap"

\* C4: when decoding input file k fails, the request fails and every file
\* read before it has been deleted, where deleting it is possible.
C4_CleanupAfterDecodeError ==
    pc = "raised" /\ error = "DecodeError" =>
        \A k \in 1..i :
            audio_files[k] \in Undeletable \/ audio_files[k] \notin disk

\* C5: the output area holds only completely encoded files, and none for a
\* request that failed.
C5_OutputAllOrNothing ==
    /\ \A f \in output_dir : f.complete
    /\ pc = "raised" => output_dir = {}

\* C6: merge_audio with no audio file raises ValueError, creates no output
\* file and leaves every file on storage as it was.
C6_EmptyInputRejected ==
    pc # "idle" /\ audio_files = <<>> =>
        /\ pc = "raised"
        /\ error = "ValueError"
        /\ output_dir = {}
        /\ disk = Paths
        /\ segments = <<>>
        /\ result = ""

C6_Witness == pc = "raised" /\ audio_files = <<>> /\ error = "ValueError"

\* C7: once the track is encoded, the clean-up visits every input file,
\* deletes each one that can be deleted whatever happened to the others,
\* raises nothing, and merge_audio returns the output path.
C7_CleanupBestEffort ==
    /\ (\E f \in output_dir : f.complete) =>
          /\ pc \in {"cleanup", "returned"}
          /\ error = ""
          /\ \A k \in 1..i :
                audio_files[k] \notin Undeletable => audio_files[k] \notin disk
    /\ pc = "returned" =>
          /\ i = Len(audio_files)
          /\ result = OutputName
          /\ \E f \in output_dir : f.name = result /\ f.complete
          /\ \A k \in 1..Len(audio_files) :
                audio_files[k] \in Undeletable => audio_files[k] \in warnings

C7_Witness ==
    /\ pc = "returned"
    /\ Len(audio_files) = 3
    /\ audio_files[1] \in Undeletable
    /\ audio_files[2] = audio_files[3]
    /\ audio_files[2] \notin disk
    /\ audio_files[1] \in disk

\* C8: get_audio_duration returns "{m}m{s}s" with m = floor(d / 60000) and
\* s = floor(d / 1000) mod 60 for a stored file of d milliseconds.
C8_DurationLabel ==
    pc = "returned" =>
        \A f \in output_dir :
            duration_label =
                IntToStr(f.ms \div 60000) \o <<"m">>
                \o IntToStr((f.ms \div 1000) % 60) \o <<"s">>

\* C9: in an overlap step overlap_position is max(0, current_position -
\* 1000): never negative, 0 when the track is shorter than 1000 ms, and the
\* step raises nothing.
C9_OverlapStartClamped ==
    /\ \A k \in 1..Len(steps) :
          steps[k].kind = "overlap" =>
              /\ steps[k].at >= 0
              /\ steps[k].at = IF steps[k].before < 1000 THEN 0
                               ELSE steps[k].before - 1000
    /\ pc \in {"compose", "adjust"} => error = ""
    /\ pc = "raised" => error \in {"ValueError", "DecodeError", "EncodeError"}

C9_Witness ==
    /\ pc = "compose"
    /\ Len(steps) = 2
    /\ steps[2].kind = "overlap"
    /\ steps[2].before < 1000
    /\ steps[2].at = 0
    /\ error = ""

WithFirstText(segs, text) == [segs EXCEPT ![1] = <<segs[1][1], text>>]

\* C10: the first segment is placed as it is at time zero whatever its
\* text: after step 0 the track is the faded first segment and
\* current_position its length, and the composited track does not depend on
\* the text of segment 0.
C10_FirstSegmentVerbatim ==
    /\ steps # <<>> =>
          /\ steps[1].kind = "first"
          /\ steps[1].at = 0
          /\ steps[1].after = AudioMs(audio_files[1])
    /\ pc \in {"compose", "adjust"} /\ i = 1 =>
          /\ final_track = Preprocess(Decoded(0, AudioMs(audio_files[1])))
          /\ final_track = segments[1][1]
          /\ current_position = TrackLen(segments[1][1])
    /\ pc = "adjust" /\ segments # <<>> =>
          \A text \in Texts :
              final_track = Composite(WithFirstText(segments, text), Len(segments))

C10_Witness ==
    /\ pc = "compose"
    /\ i = 1
    /\ MarkedOverlap(segments[1][2])
    /\ final_track = segments[1][1]


Compositing == pc \in {"compose", "adjust"}

\* C11: while compositing, the track never gets shorter: each step i >= 1
\* starts from the length the step before it left and ends with a track at
\* least that long, whatever the flags and the segment lengths, and
\* current_position is the track's length after every step.
C11_LengthNeverDecreases ==
    /\ \A k \in 2..Len(steps) :
          /\ steps[k].before = steps[k - 1].after
          /\ steps[k].after >= steps[k].before
    /\ Compositing /\ steps # <<>> =>
          /\ current_position = TrackLen(final_track)
          /\ current_position = steps[Len(steps)].after
          /\ TrackLen(final_track) >= TrackLen(prev_track)

\* An overlap step with a segment shorter than the overlap window.
C11_Witness ==
    /\ Compositing
    /\ Len(steps) = 3
    /\ steps[2].kind = "gap"
    /\ steps[3].kind = "overlap"
    /\ steps[3].seglen < 1000
    /\ steps[3].after = steps[3].before
    /\ current_position = TrackLen(final_track)


LastStep == steps[Len(steps)]

\* C12: a compositor step changes the track it found only inside the mixed
\* region: a sequential step keeps the whole previous track as the start of
\* the new one; an overlap step keeps everything before overlap_position
\* and, when the new segment is shorter than the tail, the tail beyond the
\* segment's length.
C12_OnlyMixedRegionChanges ==
    Compositing /\ Len(steps) >= 2 =>
        /\ TrackLen(prev_track) = LastStep.before
        /\ LastStep.kind = "gap" =>
              SliceTo(final_track, LastStep.before) = prev_track
        /\ LastStep.kind = "overlap" =>
              /\ SliceTo(final_track, LastStep.at) =
                     SliceTo(prev_track, LastStep.at)
              /\ LastStep.at + LastStep.seglen < LastStep.before =>
                     Slice(final_track, LastStep.at + LastStep.seglen,
                           LastStep.before)
                     = Slice(prev_track, LastStep.at + LastStep.seglen,
                             LastStep.before)

\* An overlap step whose segment ends before the tail does.
C12_Witness ==
    /\ Compositing
    /\ Len(steps) >= 2
    /\ LastStep.kind = "overlap"
    /\ LastStep.at > 0
    /\ LastStep.at + LastStep.seglen < LastStep.before
    /\ Slice(final_track, LastStep.at + LastStep.seglen, LastStep.before) # <<>>
    /\ final_track # prev_track


\* The milliseconds of the track in which input number src is heard.
RECURSIVE CoveredMs(_, _)
CoveredMs(t, src) ==
    IF t = <<>> THEN 0
    ELSE (IF \E l \in Head(t).layers : l.src = src THEN Head(t).n ELSE 0)
         + CoveredMs(Tail(t), src)

=============================================================================
